---- MODULE Spec2Model ----
(***************************************************************************)
(* Chat client of frontend-hiring-test: the Apollo cache entry of the      *)
(* GetMessages query (one MessagePage), the three writers of that entry    *)
(* (page merge, sendMessage update, subscription handlers) and the GraphQL *)
(* server that produces the pages, acknowledgments and push events.        *)
(*                                                                         *)
(* Representation.                                                         *)
(*  - ids, cursors and texts are strings, as in the source; a server id is *)
(*    the decimal string of a number, a placeholder id is "temp-" followed *)
(*    by a uuid.                                                           *)
(*  - updatedAt is written only by Date.prototype.toISOString (server      *)
(*    index.ts:31,41,50,153,255 and useSendMessage optimisticResponse), a  *)
(*    fixed-width UTC form that new Date() maps one-to-one and in order to *)
(*    the instant; the model carries the instant (a natural number).       *)
(*  - the cache entry is <<>> when the query was never written (readQuery  *)
(*    returns null) and <<page>> otherwise.                                *)
(*  - the placeholder of an optimistic send lives in the same page as the  *)
(*    server records, as in the repository's tests of the update function. *)
(***************************************************************************)
EXTENDS Integers, Sequences, FiniteSets, TLC

(***************************************************************************)
(* Bounds of the model.                                                    *)
(***************************************************************************)
\* server/index.ts:27 creates 30 messages; the model starts with fewer
InitialMessages == 3
\* useMessages DEFAULT_PAGE_SIZE is 20; scaled with InitialMessages
PageSize == 2
\* number of sendMessage calls made by the user
MaxSends == 1
\* number of times the 30 s reply timer of the server publishes a reply
MaxReplies == 1
\* last instant of the server clock
MaxTime == 2
\* number of operations applied by the cache harness
MaxOps == 2
\* number of GetMessages requests the transport fails
MaxFaults == 1
\* number of sendMessage requests the transport fails
MaxFailedSends == 1
\* number of sendMessage calls that may be in flight together
MaxConcurrentSends == 2
\* number of sends started through the form
MaxSubmits == 2
\* number of payload-less events waiting in one subscription
MaxEmpty == 1
\* number of handler runs in which the store throws
MaxThrows == 1

VARIABLES
  messages,   \* server: the messages array
  now,        \* server: clock, the instant new Date() returns
  tasks,      \* server: updateMessage calls between two of their delays
  replies,    \* server: replies published by asyncReplyMessage so far
  sendReqs,   \* sendMessage mutations on their way to the server
  acks,       \* sendMessage responses on their way to the client
  addedQ,     \* messageAdded events on their way to the client, oldest first
  updatedQ,   \* messageUpdated events on their way to the client, oldest first
  fetch,      \* the GetMessages request of useQuery / fetchMore, if any
  cache,      \* client: cache entry of GetMessages, <<>> or <<page>>
  variant,    \* which useMessageSubscriptions module the widget is built with
  sends,      \* client: number of optimistic responses generated (uuid source)
  isConnected,\* client: useChat's isConnected state
  timers,     \* client: reconnect timers of loadMore that have not fired yet
  sendTimers, \* client: reconnect timers of sendMessage that have not fired yet
  pending,    \* client: the reconnect timers that have not fired yet, in the
              \*         order they were started ("send" or "load")
  inputValue, \* client: useChat's inputValue state
  isAtBottom, \* client: useChat's isAtBottom state
  newMessagesCount, \* client: useChat's newMessagesCount state
  logged,     \* client: errors the subscription handlers wrote to the console
  uncaught,   \* client: an error left a subscription handler
  failed,     \* transport: uuids of the sends whose request failed
  faults,     \* transport: number of GetMessages requests failed so far
  prev,       \* harness: cache entry before the last operation
  lastOp,     \* harness: the last operation and its argument
  hist,       \* harness: messages applied to the cache entry, oldest first
              \*          (Spec: the push events handled with the query cached)
  ops         \* harness: number of operations applied

vars == <<messages, now, tasks, replies, sendReqs, acks, addedQ, updatedQ,
          fetch, cache, variant, sends, isConnected, timers, sendTimers,
          pending, inputValue, isAtBottom, newMessagesCount, logged, uncaught, failed,
          faults, prev, lastOp, hist, ops>>

serverVars == <<messages, now, tasks, replies>>
harnessVars == <<prev, lastOp, hist, ops>>
faultVars == <<isConnected, timers, sendTimers, pending, failed, faults>>
uiVars == <<inputValue, isAtBottom, newMessagesCount>>
dispatchVars == <<logged, uncaught>>

(***************************************************************************)
(* Strings and sequences.                                                  *)
(***************************************************************************)
NULL == "<null>"

\* String.prototype.startsWith
startsWith(s, p) == Len(s) >= Len(p) /\ SubSeq(s, 1, Len(p)) = p

\* the text taken as it is, where the source calls trim
trimOmitted(s) == s

\* String.prototype.trim, for texts padded with spaces
RECURSIVE trim(_)
trim(s) ==
  IF Len(s) = 0 THEN s
  ELSE IF SubSeq(s, 1, 1) = " " THEN trim(SubSeq(s, 2, Len(s)))
  ELSE IF SubSeq(s, Len(s), Len(s)) = " " THEN trim(SubSeq(s, 1, Len(s) - 1))
  ELSE s

Range(s) == {s[i] : i \in DOMAIN s}

\* Array.prototype.findIndex on node ids; positions count from 1, 0 is "-1"
findIndex(edges, id) ==
  IF \E i \in DOMAIN edges : edges[i].node.id = id
    THEN CHOOSE i \in DOMAIN edges :
           /\ edges[i].node.id = id
           /\ \A j \in DOMAIN edges : edges[j].node.id = id => i <= j
    ELSE 0

isTemp(id) == startsWith(id, "temp-")

Max(S) == CHOOSE x \in S : \A y \in S : y <= x

(***************************************************************************)
(* Data model (__generated__/resolvers-types.ts).                          *)
(***************************************************************************)
Message(id, text, status, updatedAt, sender) ==
  [id |-> id, text |-> text, status |-> status, updatedAt |-> updatedAt,
   sender |-> sender]

MessageEdge(node, cursor) == [node |-> node, cursor |-> cursor]

MessagePageInfo(hasNextPage, hasPreviousPage, startCursor, endCursor) ==
  [hasNextPage |-> hasNextPage, hasPreviousPage |-> hasPreviousPage,
   startCursor |-> startCursor, endCursor |-> endCursor]

MessagePage(edges, pageInfo) == [edges |-> edges, pageInfo |-> pageInfo]

\* cache.readQuery({query: GET_MESSAGES}) is null / is the page
Absent == <<>>
Present(page) == <<page>>
Data(c) == c[1]
Edges(c) == IF c = Absent THEN <<>> ELSE Data(c).edges
Nodes(c) == [i \in DOMAIN Edges(c) |-> Edges(c)[i].node]
Ids(c) == {Edges(c)[i].node.id : i \in DOMAIN Edges(c)}

\* cache.writeQuery with {...existingData.messages, edges: newEdges}
writeEdges(c, newEdges) == Present([Data(c) EXCEPT !.edges = newEdges])

\* the edge both writers synthesize for a message that is not in the page
newEdge(message) == MessageEdge(message, "cursor_" \o message.id)

(***************************************************************************)
(* lib/cache-utils.ts                                                      *)
(***************************************************************************)
\* upsertMessageInCache that writes a page of its own when none is cached
upsertCreatesPage(c, message) ==
  IF c = Absent
    THEN Present(MessagePage(<<newEdge(message)>>,
                             MessagePageInfo(FALSE, FALSE, NULL, NULL)))
  ELSE LET edges == Data(c).edges
           index == findIndex(edges, message.id)
       IN IF index = 0
            THEN writeEdges(c, Append(edges, newEdge(message)))
            ELSE IF message.updatedAt < edges[index].node.updatedAt
                   THEN c
                   ELSE writeEdges(c, [edges EXCEPT ![index].node = message])

\* upsertMessageInCache without the comparison of updatedAt
upsertWithoutStaleCheck(c, message) ==
  IF c = Absent THEN c
  ELSE LET edges == Data(c).edges
           index == findIndex(edges, message.id)
       IN IF index = 0
            THEN writeEdges(c, Append(edges, newEdge(message)))
            ELSE writeEdges(c, [edges EXCEPT ![index].node = message])

\* upsertMessageInCache that also ignores a message as old as the stored one
upsertIgnoresEqual(c, message) ==
  IF c = Absent THEN c
  ELSE LET edges == Data(c).edges
           index == findIndex(edges, message.id)
       IN IF index = 0
            THEN writeEdges(c, Append(edges, newEdge(message)))
            ELSE IF message.updatedAt <= edges[index].node.updatedAt
                   THEN c
                   ELSE writeEdges(c, [edges EXCEPT ![index].node = message])

\* upsertMessageInCache that puts the new edge in front of the others
upsertPrepends(c, message) ==
  IF c = Absent THEN c
  ELSE LET edges == Data(c).edges
           index == findIndex(edges, message.id)
       IN IF index = 0
            THEN writeEdges(c, <<newEdge(message)>> \o edges)
            ELSE IF message.updatedAt < edges[index].node.updatedAt
                   THEN c
                   ELSE writeEdges(c, [edges EXCEPT ![index].node = message])

\* upsertMessageInCache that appends a fresher message instead of replacing
upsertAppendsFresher(c, message) ==
  IF c = Absent THEN c
  ELSE LET edges == Data(c).edges
           index == findIndex(edges, message.id)
       IN IF index = 0
            THEN writeEdges(c, Append(edges, newEdge(message)))
            ELSE IF message.updatedAt < edges[index].node.updatedAt
                   THEN c
                   ELSE writeEdges(c, Append(edges, newEdge(message)))

\* upsertMessageInCache with the comparison of updatedAt the wrong way round
upsertIgnoresNewer(c, message) ==
  IF c = Absent THEN c
  ELSE LET edges == Data(c).edges
           index == findIndex(edges, message.id)
       IN IF index = 0
            THEN writeEdges(c, Append(edges, newEdge(message)))
            ELSE IF message.updatedAt > edges[index].node.updatedAt
                   THEN c
                   ELSE writeEdges(c, [edges EXCEPT ![index].node = message])

\* upsertMessageInCache that never replaces the node of an id it has
upsertKeepsFirst(c, message) ==
  IF c = Absent THEN c
  ELSE LET edges == Data(c).edges
           index == findIndex(edges, message.id)
       IN IF index = 0
            THEN writeEdges(c, Append(edges, newEdge(message)))
            ELSE c

\* upsertMessageInCache that rewrites the whole edge, cursor included, when
\* it replaces a node
upsertResetsCursor(c, message) ==
  IF c = Absent THEN c
  ELSE LET edges == Data(c).edges
           index == findIndex(edges, message.id)
       IN IF index = 0
            THEN writeEdges(c, Append(edges, newEdge(message)))
            ELSE IF message.updatedAt < edges[index].node.updatedAt
                   THEN c
                   ELSE writeEdges(c, [edges EXCEPT ![index] = newEdge(message)])

upsertMessageInCache(c, message) ==
  IF c = Absent THEN c
  ELSE LET edges == Data(c).edges
           index == findIndex(edges, message.id)
       IN IF index = 0
            THEN writeEdges(c, Append(edges, newEdge(message)))
            ELSE IF message.updatedAt < edges[index].node.updatedAt
                   THEN c
                   ELSE writeEdges(c, [edges EXCEPT ![index].node = message])

\* removeTempMessagesByText that evicts every placeholder, whatever its text
removeTempIgnoresText(c, text) ==
  IF c = Absent THEN c
  ELSE LET keep(edge) == ~isTemp(edge.node.id)
           filteredEdges == SelectSeq(Data(c).edges, keep)
       IN IF Len(filteredEdges) = Len(Data(c).edges)
            THEN c
            ELSE writeEdges(c, filteredEdges)

removeTempMessagesByText(c, text) ==
  IF c = Absent THEN c
  ELSE LET keep(edge) == ~(isTemp(edge.node.id) /\ edge.node.text = text)
           filteredEdges == SelectSeq(Data(c).edges, keep)
       IN IF Len(filteredEdges) = Len(Data(c).edges)
            THEN c
            ELSE writeEdges(c, filteredEdges)

(***************************************************************************)
(* lib/hooks/useSendMessage.ts: the update option of the mutation, called  *)
(* with the optimistic response and with the server's response.            *)
(***************************************************************************)
\* update that evicts only the first placeholder with the text
updateEvictsFirstTemp(c, sendMessage) ==
  IF c = Absent THEN c
  ELSE LET edges == Data(c).edges
           matches == {i \in DOMAIN edges :
                         /\ isTemp(edges[i].node.id)
                         /\ edges[i].node.text = sendMessage.text}
           first == IF matches = {} THEN 0
                    ELSE CHOOSE i \in matches : \A j \in matches : i <= j
           edgesWithoutTemps ==
             IF first = 0 THEN edges
             ELSE SubSeq(edges, 1, first - 1) \o
                  SubSeq(edges, first + 1, Len(edges))
           existsNow == \E i \in DOMAIN edgesWithoutTemps :
                          edgesWithoutTemps[i].node.id = sendMessage.id
           finalEdges ==
             IF ~existsNow
               THEN Append(edgesWithoutTemps, newEdge(sendMessage))
               ELSE [i \in DOMAIN edgesWithoutTemps |->
                      IF /\ edgesWithoutTemps[i].node.id = sendMessage.id
                         /\ sendMessage.updatedAt >=
                              edgesWithoutTemps[i].node.updatedAt
                        THEN [edgesWithoutTemps[i] EXCEPT !.node = sendMessage]
                        ELSE edgesWithoutTemps[i]]
       IN writeEdges(c, finalEdges)

\* update that leaves the placeholders where they are
updateKeepsTemps(c, sendMessage) ==
  IF c = Absent THEN c
  ELSE LET edgesWithoutTemps == Data(c).edges
           existsNow == \E i \in DOMAIN edgesWithoutTemps :
                          edgesWithoutTemps[i].node.id = sendMessage.id
           finalEdges ==
             IF ~existsNow
               THEN Append(edgesWithoutTemps, newEdge(sendMessage))
               ELSE [i \in DOMAIN edgesWithoutTemps |->
                      IF /\ edgesWithoutTemps[i].node.id = sendMessage.id
                         /\ sendMessage.updatedAt >=
                              edgesWithoutTemps[i].node.updatedAt
                        THEN [edgesWithoutTemps[i] EXCEPT !.node = sendMessage]
                        ELSE edgesWithoutTemps[i]]
       IN writeEdges(c, finalEdges)

\* update that evicts every placeholder, whatever its text
updateEvictsEveryTemp(c, sendMessage) ==
  IF c = Absent THEN c
  ELSE LET keep(edge) == ~isTemp(edge.node.id)
           edgesWithoutTemps == SelectSeq(Data(c).edges, keep)
           existsNow == \E i \in DOMAIN edgesWithoutTemps :
                          edgesWithoutTemps[i].node.id = sendMessage.id
           finalEdges ==
             IF ~existsNow
               THEN Append(edgesWithoutTemps, newEdge(sendMessage))
               ELSE [i \in DOMAIN edgesWithoutTemps |->
                      IF /\ edgesWithoutTemps[i].node.id = sendMessage.id
                         /\ sendMessage.updatedAt >=
                              edgesWithoutTemps[i].node.updatedAt
                        THEN [edgesWithoutTemps[i] EXCEPT !.node = sendMessage]
                        ELSE edgesWithoutTemps[i]]
       IN writeEdges(c, finalEdges)

\* update that replaces the node of the id whatever its updatedAt
updateWithoutFreshness(c, sendMessage) ==
  IF c = Absent THEN c
  ELSE LET keep(edge) ==
             ~(isTemp(edge.node.id) /\ edge.node.text = sendMessage.text)
           edgesWithoutTemps == SelectSeq(Data(c).edges, keep)
           existsNow == \E i \in DOMAIN edgesWithoutTemps :
                          edgesWithoutTemps[i].node.id = sendMessage.id
           finalEdges ==
             IF ~existsNow
               THEN Append(edgesWithoutTemps, newEdge(sendMessage))
               ELSE [i \in DOMAIN edgesWithoutTemps |->
                      IF edgesWithoutTemps[i].node.id = sendMessage.id
                        THEN [edgesWithoutTemps[i] EXCEPT !.node = sendMessage]
                        ELSE edgesWithoutTemps[i]]
       IN writeEdges(c, finalEdges)

update(c, sendMessage) ==
  IF c = Absent THEN c
  ELSE LET keep(edge) ==
             ~(isTemp(edge.node.id) /\ edge.node.text = sendMessage.text)
           edgesWithoutTemps == SelectSeq(Data(c).edges, keep)
           existsNow == \E i \in DOMAIN edgesWithoutTemps :
                          edgesWithoutTemps[i].node.id = sendMessage.id
           finalEdges ==
             IF ~existsNow
               THEN Append(edgesWithoutTemps, newEdge(sendMessage))
               ELSE [i \in DOMAIN edgesWithoutTemps |->
                      IF /\ edgesWithoutTemps[i].node.id = sendMessage.id
                         /\ sendMessage.updatedAt >=
                              edgesWithoutTemps[i].node.updatedAt
                        THEN [edgesWithoutTemps[i] EXCEPT !.node = sendMessage]
                        ELSE edgesWithoutTemps[i]]
       IN writeEdges(c, finalEdges)

optimisticResponse(uuid, text, at) ==
  Message("temp-" \o uuid, text, "Sending", at, "Admin")

(***************************************************************************)
(* The two useMessageSubscriptions modules.                                *)
(***************************************************************************)
\* lib/hooks/useMessageSubscriptions.ts
handleNewMessage(c, newMessage) == upsertMessageInCache(c, newMessage)

handleUpdatedMessage(c, updatedMessage) ==
  upsertMessageInCache(c, updatedMessage)

\* hooks/useMessageSubscriptions.ts
hooksHandleNewMessage(c, newMessage) ==
  IF c = Absent THEN c
  ELSE IF newMessage.id \in Ids(c) THEN c
  ELSE writeEdges(c, Append(Data(c).edges, newEdge(newMessage)))

hooksHandleUpdatedMessage(c, updatedMessage) ==
  IF c = Absent THEN c
  ELSE LET edges == Data(c).edges
           messageIndex == findIndex(edges, updatedMessage.id)
       IN IF messageIndex = 0 THEN c
          ELSE IF updatedMessage.updatedAt < edges[messageIndex].node.updatedAt
                 THEN c
                 ELSE writeEdges(c, [edges EXCEPT
                                       ![messageIndex].node = updatedMessage])

(***************************************************************************)
(* shared/api/cache.ts: field policy of Query.messages.  args.after and    *)
(* args.before are NULL when the request does not carry them.              *)
(***************************************************************************)
\* merge whose forward branch keeps the pageInfo of the existing page
mergeForwardKeepsPageInfo(existing, incoming, after, before) ==
  IF existing = Absent THEN Present(incoming)
  ELSE IF after # NULL /\ after # ""
    THEN Present(MessagePage(Data(existing).edges \o incoming.edges,
                             Data(existing).pageInfo))
  ELSE IF before # NULL /\ before # ""
    THEN Present(MessagePage(
           incoming.edges \o Data(existing).edges,
           [incoming.pageInfo EXCEPT
              !.hasNextPage = Data(existing).pageInfo.hasNextPage,
              !.endCursor = Data(existing).pageInfo.endCursor]))
  ELSE Present(incoming)

\* merge whose backward branch takes the whole pageInfo of the incoming page
mergeBackwardMovesFrontier(existing, incoming, after, before) ==
  IF existing = Absent THEN Present(incoming)
  ELSE IF after # NULL /\ after # ""
    THEN Present(MessagePage(Data(existing).edges \o incoming.edges,
                             incoming.pageInfo))
  ELSE IF before # NULL /\ before # ""
    THEN Present(MessagePage(incoming.edges \o Data(existing).edges,
                             incoming.pageInfo))
  ELSE Present(incoming)

\* merge that appends the incoming page also when no cursor is given
mergeReloadAppends(existing, incoming, after, before) ==
  IF existing = Absent THEN Present(incoming)
  ELSE IF before # NULL /\ before # "" /\ (after = NULL \/ after = "")
    THEN Present(MessagePage(
           incoming.edges \o Data(existing).edges,
           [incoming.pageInfo EXCEPT
              !.hasNextPage = Data(existing).pageInfo.hasNextPage,
              !.endCursor = Data(existing).pageInfo.endCursor]))
  ELSE Present(MessagePage(Data(existing).edges \o incoming.edges,
                           incoming.pageInfo))

merge(existing, incoming, after, before) ==
  IF existing = Absent THEN Present(incoming)
  ELSE IF after # NULL /\ after # ""
    THEN Present(MessagePage(Data(existing).edges \o incoming.edges,
                             incoming.pageInfo))
  ELSE IF before # NULL /\ before # ""
    THEN Present(MessagePage(
           incoming.edges \o Data(existing).edges,
           [incoming.pageInfo EXCEPT
              !.hasNextPage = Data(existing).pageInfo.hasNextPage,
              !.endCursor = Data(existing).pageInfo.endCursor]))
  ELSE Present(incoming)

(***************************************************************************)
(* server/index.ts                                                         *)
(***************************************************************************)
\* Query.messages for the GetMessages document, which has no before variable
QueryMessages(msgs, first, after) ==
  LET afterIndex == IF after # NULL /\ after # ""
                      THEN CHOOSE i \in 0..Len(msgs) :
                             IF \E j \in DOMAIN msgs : msgs[j].id = after
                               THEN /\ i \in DOMAIN msgs
                                    /\ msgs[i].id = after
                                    /\ \A j \in DOMAIN msgs :
                                         msgs[j].id = after => i <= j
                               ELSE i = 0
                      ELSE 0
      slicedMessages == SubSeq(msgs, afterIndex + 1, Len(msgs))
      limit == IF first = 0 THEN 10 ELSE first
      paginatedMessages ==
        SubSeq(slicedMessages, 1,
               IF Len(slicedMessages) < limit THEN Len(slicedMessages)
               ELSE limit)
      edges == [i \in DOMAIN paginatedMessages |->
                  MessageEdge(paginatedMessages[i], paginatedMessages[i].id)]
  IN MessagePage(
       edges,
       MessagePageInfo(
         Len(slicedMessages) > limit,
         afterIndex >= 1,
         IF Len(edges) > 0 THEN edges[1].cursor ELSE NULL,
         IF Len(edges) > 0 THEN edges[Len(edges)].cursor ELSE NULL))

\* const messages = Array.from(Array(30), ...)
initialMessages ==
  [i \in 1..InitialMessages |->
     Message(ToString(i - 1), "Message number " \o ToString(i - 1), "Read", 0,
             IF (i - 1) % 2 = 1 THEN "Admin" ELSE "Customer")]

(***************************************************************************)
(* State of the running system.                                            *)
(*                                                                         *)
(* The server clock advances while updateMessage awaits one of its delays; *)
(* every other server step reads the clock where the last delay left it.   *)
(* Each subscription delivers its events in the order of publication; the  *)
(* two subscriptions, the mutation response and the query response are not *)
(* ordered with respect to each other.                                     *)
(***************************************************************************)
NoMsg == Message("", "", "", 0, "")
Op(kind, msg) == [kind |-> kind, msg |-> msg]

EmptyPage == MessagePage(<<>>, MessagePageInfo(FALSE, FALSE, NULL, NULL))
Idle == [phase |-> "idle", after |-> NULL, page |-> EmptyPage]
Requested(after) == [phase |-> "requested", after |-> after, page |-> EmptyPage]
Responded(after, page) == [phase |-> "responded", after |-> after, page |-> page]

\* what the user may type into the input
InputTexts == {"hi", " hi ", "bye", "  ", ""}

\* ApolloClient is created, ChatWidget mounts and useQuery sends GetMessages
\* with {first: DEFAULT_PAGE_SIZE, after: undefined}
Init ==
  /\ messages = initialMessages
  /\ now = 0
  /\ tasks = {}
  /\ replies = 0
  /\ sendReqs = {}
  /\ acks = {}
  /\ addedQ = <<>>
  /\ updatedQ = <<>>
  /\ fetch = Requested(NULL)
  /\ cache = Absent
  /\ variant \in {"lib", "hooks"}
  /\ sends = 0
  /\ isConnected = TRUE
  /\ timers = 0
  /\ sendTimers = 0
  /\ pending = <<>>
  /\ inputValue = ""
  /\ isAtBottom = TRUE
  /\ newMessagesCount = 0
  /\ logged = 0
  /\ uncaught = FALSE
  /\ failed = {}
  /\ faults = 0
  /\ prev = Absent
  /\ lastOp = Op("init", NoMsg)
  /\ hist = <<>>
  /\ ops = 0

(***************************************************************************)
(* Client.                                                                 *)
(***************************************************************************)
\* a call of sendMessage with the text the user typed
SubmitOp(kind, msg, raw) == [kind |-> kind, msg |-> msg, raw |-> raw]

\* useSendMessage.sendMessage(text), reached directly or through
\* useChat.sendMessage, which trims in the same way: an empty trimmed text
\* returns null; otherwise the mutation runs update with the optimistic
\* response and the request leaves for the server
SendMessage(raw, started) ==
  IF trim(raw) = ""
    THEN /\ lastOp' = SubmitOp("rejected", NoMsg, raw)
         /\ UNCHANGED <<cache, sendReqs, sends, prev>>
    ELSE LET uuid == "u" \o ToString(sends + 1)
             temp == optimisticResponse(uuid, trim(raw), now)
         IN /\ cache' = update(cache, temp)
            /\ sendReqs' = sendReqs \cup {[uuid |-> uuid, text |-> trim(raw)]}
            /\ sends' = sends + 1
            /\ prev' = cache
            /\ lastOp' = SubmitOp(started, temp, raw)

\* a call of sendMessage with a text
Submit(raw) ==
  /\ sends < MaxSends
  /\ SendMessage(raw, "optimistic")
  /\ UNCHANGED <<faultVars, uiVars, dispatchVars>>
  /\ UNCHANGED <<serverVars, acks, addedQ, updatedQ, fetch, variant, hist, ops>>

\* the response of sendMessage arrives: update runs with the server's message
\* an ack handler that writes the page it computed from the store as it was
\* before the write of the event handled last
DeliverAckFromSnapshot(a) ==
  /\ a \in acks
  /\ acks' = acks \ {a}
  /\ cache' = update(prev, a.data)
  /\ prev' = cache
  /\ lastOp' = Op("ack", a.data)
  /\ UNCHANGED <<faultVars, uiVars, dispatchVars>>
  /\ UNCHANGED <<serverVars, sendReqs, addedQ, updatedQ, fetch, variant, sends,
                 hist, ops>>

DeliverAck(a) ==
  /\ a \in acks
  /\ acks' = acks \ {a}
  /\ cache' = update(cache, a.data)
  /\ prev' = cache
  /\ lastOp' = Op("ack", a.data)
  /\ UNCHANGED <<faultVars, uiVars, dispatchVars>>
  /\ UNCHANGED <<serverVars, sendReqs, addedQ, updatedQ, fetch, variant, sends,
                 hist, ops>>

\* an event that carries no messageAdded / messageUpdated value
NoData == NoMsg

\* the test of onData that lets every event through
hasPayloadAlways(message) == TRUE

\* data?.data?.messageAdded and data?.data?.messageUpdated in onData
hasPayload(message) == message # NoData

\* whether handleNewMessage reaches onMessageAdded?.(newMessage): the lib
\* module calls it after every upsert, the hooks module after it has
\* written a message that was not in the page
addedCallbackRuns(c, newMessage) ==
  IF variant = "lib" THEN TRUE
  ELSE c # Absent /\ newMessage.id \notin Ids(c)

\* useChat's onMessageAdded: setNewMessagesCount when not at the bottom
onMessageAdded(count, atBottom) == IF ~atBottom THEN count + 1 ELSE count

\* onData of the messageAdded subscription
DeliverAdded ==
  /\ addedQ # <<>>
  /\ addedQ' = Tail(addedQ)
  /\ LET newMessage == Head(addedQ)
     IN IF hasPayload(newMessage)
          THEN /\ cache' = IF variant = "lib"
                             THEN handleNewMessage(cache, newMessage)
                             ELSE hooksHandleNewMessage(cache, newMessage)
               /\ newMessagesCount' =
                    IF addedCallbackRuns(cache, newMessage)
                      THEN onMessageAdded(newMessagesCount, isAtBottom)
                      ELSE newMessagesCount
               /\ prev' = cache
               /\ lastOp' = Op("messageAdded", newMessage)
               /\ hist' = IF cache = Absent THEN hist
                          ELSE Append(hist, lastOp')
          ELSE /\ lastOp' = Op("emptyAdded", NoData)
               /\ UNCHANGED <<cache, newMessagesCount, prev, hist>>
  /\ UNCHANGED <<faultVars, inputValue, isAtBottom, dispatchVars>>
  /\ UNCHANGED <<serverVars, sendReqs, acks, updatedQ, fetch, variant, sends,
                 ops>>

\* onData of the messageUpdated subscription; useChat's onMessageUpdated
\* only logs the message
DeliverUpdated ==
  /\ updatedQ # <<>>
  /\ updatedQ' = Tail(updatedQ)
  /\ LET updatedMessage == Head(updatedQ)
     IN IF hasPayload(updatedMessage)
          THEN /\ cache' = IF variant = "lib"
                             THEN handleUpdatedMessage(cache, updatedMessage)
                             ELSE hooksHandleUpdatedMessage(cache,
                                                            updatedMessage)
               /\ prev' = cache
               /\ lastOp' = Op("messageUpdated", updatedMessage)
               /\ hist' = IF cache = Absent THEN hist
                          ELSE Append(hist, lastOp')
          ELSE /\ lastOp' = Op("emptyUpdated", NoData)
               /\ UNCHANGED <<cache, prev, hist>>
  /\ UNCHANGED <<faultVars, uiVars, dispatchVars>>
  /\ UNCHANGED <<serverVars, sendReqs, acks, addedQ, fetch, variant, sends,
                 ops>>

\* a load-more that does not look at hasNextPage
FetchMoreIgnoresHasNextPage ==
  /\ fetch.phase = "idle"
  /\ cache # Absent
  /\ Data(cache).pageInfo.endCursor \notin {NULL, ""}
  /\ fetch' = Requested(Data(cache).pageInfo.endCursor)
  /\ UNCHANGED <<faultVars, uiVars, dispatchVars>>
  /\ UNCHANGED <<serverVars, sendReqs, acks, addedQ, updatedQ, cache, variant,
                 sends, harnessVars>>

\* useMessages.handleFetchMore, called by MessageList.handleEndReached while
\* no request is loading
FetchMore ==
  /\ fetch.phase = "idle"
  /\ cache # Absent
  /\ Data(cache).pageInfo.hasNextPage
  /\ Data(cache).pageInfo.endCursor \notin {NULL, ""}
  /\ fetch' = Requested(Data(cache).pageInfo.endCursor)
  /\ UNCHANGED <<faultVars, uiVars, dispatchVars>>
  /\ UNCHANGED <<serverVars, sendReqs, acks, addedQ, updatedQ, cache, variant,
                 sends, harnessVars>>

\* the response of GetMessages arrives and is written through the field policy
MergePage ==
  /\ fetch.phase = "responded"
  /\ cache' = merge(cache, fetch.page, fetch.after, NULL)
  /\ fetch' = Idle
  /\ prev' = cache
  /\ lastOp' = Op(IF fetch.after = NULL THEN "initial" ELSE "forward", NoMsg)
  /\ UNCHANGED <<faultVars, uiVars, dispatchVars>>
  /\ UNCHANGED <<serverVars, sendReqs, acks, addedQ, updatedQ, variant, sends,
                 hist, ops>>

(***************************************************************************)
(* Transport failures.                                                     *)
(***************************************************************************)
\* hooks/useSendMessage.ts hands the failure of the mutation to its caller;
\* lib/hooks/useSendMessage.ts catches it and returns null
sendMessageRejects == variant = "hooks"

\* the request of a sendMessage mutation fails: update is not called again;
\* when sendMessage rejects, the catch of useChat.sendMessage sets
\* isConnected to false and starts its 3 s timer
SendFails(r) ==
  /\ Cardinality(failed) < MaxFailedSends
  /\ r \in sendReqs
  /\ sendReqs' = sendReqs \ {r}
  /\ failed' = failed \cup {r.uuid}
  /\ IF sendMessageRejects
       THEN /\ isConnected' = FALSE
            /\ sendTimers' = sendTimers + 1
            /\ pending' = Append(pending, "send")
       ELSE UNCHANGED <<isConnected, sendTimers, pending>>
  /\ UNCHANGED <<serverVars, acks, addedQ, updatedQ, fetch, cache, variant,
                 sends, timers, faults, uiVars, dispatchVars, harnessVars>>

\* the 3 s timer of useChat.sendMessage fires: setIsConnected(true); the
\* timers all run 3 s, so they fire in the order they were started
SendReconnect ==
  /\ sendTimers > 0
  /\ Head(pending) = "send"
  /\ pending' = Tail(pending)
  /\ sendTimers' = sendTimers - 1
  /\ isConnected' = TRUE
  /\ UNCHANGED <<serverVars, sendReqs, acks, addedQ, updatedQ, fetch, cache,
                 variant, sends, timers, failed, faults, uiVars, dispatchVars,
                 harnessVars>>

\* hooks/useMessages.ts hands the failure of fetchMore to its caller;
\* lib/hooks/useMessages.ts catches it in handleFetchMore
fetchMoreRejects == variant = "hooks"

\* the request of a fetchMore fails; when fetchMore rejects, the catch of
\* useChat.loadMore sets isConnected to false and starts its 3 s timer
LoadMoreFails ==
  /\ faults < MaxFaults
  /\ fetch.phase = "requested"
  /\ fetch.after # NULL
  /\ fetch' = Idle
  /\ faults' = faults + 1
  /\ IF fetchMoreRejects
       THEN /\ isConnected' = FALSE
            /\ timers' = timers + 1
            /\ pending' = Append(pending, "load")
       ELSE UNCHANGED <<isConnected, timers, pending>>
  /\ UNCHANGED <<serverVars, sendReqs, acks, addedQ, updatedQ, cache, variant,
                 sends, sendTimers, failed, uiVars, dispatchVars, harnessVars>>

\* the 3 s timer of loadMore fires while no request is loading:
\* setIsConnected(true) and refetch(), which sends GetMessages again with
\* the variables of useQuery
Reconnect ==
  /\ timers > 0
  /\ Head(pending) = "load"
  /\ pending' = Tail(pending)
  /\ fetch.phase = "idle"
  /\ timers' = timers - 1
  /\ isConnected' = TRUE
  /\ fetch' = Requested(NULL)
  /\ UNCHANGED <<serverVars, sendReqs, acks, addedQ, updatedQ, cache, variant,
                 sends, sendTimers, failed, faults, uiVars, dispatchVars,
                 harnessVars>>

(***************************************************************************)
(* The widget: input field, viewport and the handlers of push events in    *)
(* their failing runs.                                                     *)
(***************************************************************************)
\* a loading flag that is never set
sendingMessageNever == FALSE

\* the mutation's loading flag, which useChat calls sendingMessage: true
\* from the call of the latest mutation until its result or error arrives
sendingMessage ==
  LET latest == "u" \o ToString(sends)
  IN \/ \E r \in sendReqs : r.uuid = latest
     \/ \E a \in acks : a.uuid = latest

\* the user types into the input: MessageInput.handleChange
SetInputValue(value) ==
  /\ value # inputValue
  /\ inputValue' = value
  /\ UNCHANGED <<serverVars, sendReqs, acks, addedQ, updatedQ, fetch, cache,
                 variant, sends, faultVars, isAtBottom, newMessagesCount,
                 dispatchVars, harnessVars>>

\* useChat.handleSubmit
HandleSubmit ==
  /\ IF trim(inputValue) = "" \/ sendingMessage
       THEN /\ lastOp' = SubmitOp("ignored", NoMsg, inputValue)
            /\ UNCHANGED <<inputValue, cache, sendReqs, sends, prev>>
       ELSE /\ sends < MaxSubmits
            /\ inputValue' = ""
            /\ SendMessage(inputValue, "submitted")
  /\ UNCHANGED <<serverVars, acks, addedQ, updatedQ, fetch, variant, faultVars,
                 isAtBottom, newMessagesCount, dispatchVars, hist, ops>>

\* handleAtBottomChange that only records the position of the viewport
atBottomKeepsCount(count, atBottom) == count

\* useChat.handleAtBottomChange: the count after setIsAtBottom(atBottom)
handleAtBottomChange(count, atBottom) ==
  IF atBottom /\ count > 0 THEN 0 ELSE count

\* a call on the counter, with the count it found
CountOp(kind, atBottom, count) ==
  [kind |-> kind, msg |-> NoMsg, atBottom |-> atBottom, count |-> count]

\* MessageList reports that the viewport reached or left the bottom
AtBottomChange(atBottom) ==
  /\ isAtBottom' = atBottom
  /\ newMessagesCount' = handleAtBottomChange(newMessagesCount, atBottom)
  /\ lastOp' = CountOp("atBottomChange", atBottom, newMessagesCount)
  /\ UNCHANGED <<serverVars, sendReqs, acks, addedQ, updatedQ, fetch, cache,
                 variant, sends, faultVars, inputValue, dispatchVars, prev,
                 hist, ops>>

\* useChat.resetNewMessages
resetNewMessages(count) == 0

\* a call of resetNewMessages, as ChatWidget.handleBannerClick makes
ResetNewMessages ==
  /\ newMessagesCount' = resetNewMessages(newMessagesCount)
  /\ lastOp' = CountOp("resetNewMessages", isAtBottom, newMessagesCount)
  /\ UNCHANGED <<serverVars, sendReqs, acks, addedQ, updatedQ, fetch, cache,
                 variant, sends, faultVars, inputValue, isAtBottom,
                 dispatchVars, prev, hist, ops>>

\* the transport delivers an event without a messageAdded value
EmptyAdded ==
  /\ Cardinality({i \in DOMAIN addedQ : addedQ[i] = NoData}) < MaxEmpty
  /\ addedQ' = Append(addedQ, NoData)
  /\ UNCHANGED <<serverVars, sendReqs, acks, updatedQ, fetch, cache, variant,
                 sends, faultVars, uiVars, dispatchVars, harnessVars>>

\* the transport delivers an event without a messageUpdated value
EmptyUpdated ==
  /\ Cardinality({i \in DOMAIN updatedQ : updatedQ[i] = NoData}) < MaxEmpty
  /\ updatedQ' = Append(updatedQ, NoData)
  /\ UNCHANGED <<serverVars, sendReqs, acks, addedQ, fetch, cache, variant,
                 sends, faultVars, uiVars, dispatchVars, harnessVars>>

\* a handler without try and catch: the error leaves the handler
handlerRethrows(error) == [logged |-> 0, uncaught |-> TRUE]

\* try { ... } catch (error) { console.error(...) } of both handlers
handlerCatch(error) == [logged |-> 1, uncaught |-> FALSE]

\* onData of messageAdded in a run in which the store throws: the handler
\* leaves its try block before the store is written and before the callback
DeliverAddedThrows ==
  /\ logged < MaxThrows
  /\ addedQ # <<>>
  /\ hasPayload(Head(addedQ))
  /\ addedQ' = Tail(addedQ)
  /\ logged' = logged + handlerCatch("store").logged
  /\ uncaught' = (uncaught \/ handlerCatch("store").uncaught)
  /\ lastOp' = Op("addedThrew", Head(addedQ))
  /\ UNCHANGED <<serverVars, sendReqs, acks, updatedQ, fetch, cache, variant,
                 sends, faultVars, uiVars, prev, hist, ops>>

\* onData of messageUpdated in a run in which the store throws
DeliverUpdatedThrows ==
  /\ logged < MaxThrows
  /\ updatedQ # <<>>
  /\ hasPayload(Head(updatedQ))
  /\ updatedQ' = Tail(updatedQ)
  /\ logged' = logged + handlerCatch("store").logged
  /\ uncaught' = (uncaught \/ handlerCatch("store").uncaught)
  /\ lastOp' = Op("updatedThrew", Head(updatedQ))
  /\ UNCHANGED <<serverVars, sendReqs, acks, addedQ, fetch, cache, variant,
                 sends, faultVars, uiVars, prev, hist, ops>>

(***************************************************************************)
(* Server.                                                                 *)
(***************************************************************************)
\* Query.messages
ResolveQuery ==
  /\ fetch.phase = "requested"
  /\ fetch' = Responded(fetch.after,
                        QueryMessages(messages, PageSize, fetch.after))
  /\ UNCHANGED <<faultVars, uiVars, dispatchVars>>
  /\ UNCHANGED <<serverVars, sendReqs, acks, addedQ, updatedQ, cache, variant,
                 sends, harnessVars>>

\* Mutation.sendMessage
ServerSendMessage(r) ==
  /\ r \in sendReqs
  /\ LET messageAdded == Message(ToString(Len(messages) + 1), r.text,
                                 "Sending", now, "Admin")
     IN /\ messages' = Append(messages, messageAdded)
        /\ addedQ' = Append(addedQ, messageAdded)
        /\ tasks' = tasks \cup {[message |-> messageAdded, stage |-> 1]}
        /\ acks' = acks \cup {[uuid |-> r.uuid, data |-> messageAdded]}
  /\ sendReqs' = sendReqs \ {r}
  /\ UNCHANGED <<faultVars, uiVars, dispatchVars>>
  /\ UNCHANGED <<now, replies, updatedQ, fetch, cache, variant, sends,
                 harnessVars>>

\* updateMessage: after delay(1000) publish Sent, after delay(15000) publish Read
ServerUpdate(k) ==
  /\ k \in tasks
  /\ now + 1 <= MaxTime
  /\ now' = now + 1
  /\ updatedQ' = Append(updatedQ,
       [k.message EXCEPT !.status = IF k.stage = 1 THEN "Sent" ELSE "Read",
                         !.updatedAt = now + 1])
  /\ tasks' = (tasks \ {k}) \cup
                (IF k.stage = 1 THEN {[k EXCEPT !.stage = 2]} ELSE {})
  /\ UNCHANGED <<faultVars, uiVars, dispatchVars>>
  /\ UNCHANGED <<messages, replies, sendReqs, acks, addedQ, fetch, cache,
                 variant, sends, harnessVars>>

\* asyncReplyMessage: the 30 s timer fires
ServerReply ==
  /\ replies < MaxReplies
  /\ Len(messages) > 0
  /\ messages[Len(messages)].sender = "Admin"
  /\ LET index == Len(messages) + 1
         messageAdded == Message(ToString(index),
                                 "Message number " \o ToString(index),
                                 "Sent", now, "Customer")
     IN addedQ' = Append(addedQ, messageAdded)
  /\ replies' = replies + 1
  /\ UNCHANGED <<faultVars, uiVars, dispatchVars>>
  /\ UNCHANGED <<messages, now, tasks, sendReqs, acks, updatedQ, fetch, cache,
                 variant, sends, harnessVars>>

Next ==
  \/ \E raw \in InputTexts : Submit(raw)
  \/ \E a \in acks : DeliverAck(a)
  \/ DeliverAdded
  \/ DeliverUpdated
  \/ FetchMore
  \/ MergePage
  \/ ResolveQuery
  \/ \E r \in sendReqs : ServerSendMessage(r)
  \/ \E k \in tasks : ServerUpdate(k)
  \/ ServerReply
  \/ \E r \in sendReqs : SendFails(r)
  \/ LoadMoreFails
  \/ Reconnect
  \/ SendReconnect

Spec == Init /\ [][Next]_vars

\* the form of the widget: typing and submitting while pages,
\* acknowledgments and push events arrive
FormNext ==
  \/ \E value \in InputTexts : SetInputValue(value)
  \/ HandleSubmit
  \/ \E a \in acks : DeliverAck(a)
  \/ DeliverAdded
  \/ DeliverUpdated
  \/ MergePage
  \/ ResolveQuery
  \/ \E r \in sendReqs : ServerSendMessage(r)
  \/ \E k \in tasks : ServerUpdate(k)
  \/ \E r \in sendReqs : SendFails(r)
  \/ SendReconnect

FormSpec == Init /\ [][FormNext]_vars

\* the message list of the widget: scrolling while pages, acknowledgments
\* and push events arrive, some of them empty or failing in the store
ChatNext ==
  \/ \E raw \in InputTexts : Submit(raw)
  \/ \E atBottom \in BOOLEAN : AtBottomChange(atBottom)
  \/ ResetNewMessages
  \/ \E a \in acks : DeliverAck(a)
  \/ DeliverAdded
  \/ DeliverUpdated
  \/ EmptyAdded
  \/ EmptyUpdated
  \/ DeliverAddedThrows
  \/ DeliverUpdatedThrows
  \/ MergePage
  \/ ResolveQuery
  \/ \E r \in sendReqs : ServerSendMessage(r)
  \/ \E k \in tasks : ServerUpdate(k)
  \/ ServerReply

ChatSpec == Init /\ [][ChatNext]_vars

\* a call of sendMessage while earlier calls may still be unacknowledged
ConcurrentSubmit(raw) ==
  /\ sends < MaxConcurrentSends
  /\ SendMessage(raw, "optimistic")
  /\ UNCHANGED <<faultVars, uiVars, dispatchVars>>
  /\ UNCHANGED <<serverVars, acks, addedQ, updatedQ, fetch, variant, hist, ops>>

\* several sends in flight at once
SendNext ==
  \/ \E raw \in InputTexts : ConcurrentSubmit(raw)
  \/ \E a \in acks : DeliverAck(a)
  \/ DeliverAdded
  \/ DeliverUpdated
  \/ MergePage
  \/ ResolveQuery
  \/ \E r \in sendReqs : ServerSendMessage(r)
  \/ \E k \in tasks : ServerUpdate(k)

SendSpec == Init /\ [][SendNext]_vars

(***************************************************************************)
(* Harness of the cache functions: a page as the running system builds it  *)
(* (server records under their own cursor, placeholders and pushed records *)
(* under a synthesized cursor, one edge per id) and the three functions    *)
(* applied to it with arbitrary arguments.                                 *)
(***************************************************************************)
SeedEdges ==
  { MessageEdge(Message("7", "hi", "Sent", 2, "Admin"), "7"),
    MessageEdge(Message("8", "bye", "Read", 1, "Customer"), "cursor_8"),
    MessageEdge(Message("temp-a", "hi", "Sending", 1, "Admin"), "cursor_temp-a"),
    MessageEdge(Message("temp-b", "bye", "Sending", 3, "Admin"), "cursor_temp-b") }

SeedPageInfo == MessagePageInfo(TRUE, FALSE, "7", "8")

\* sequences of at most n distinct elements of S
RECURSIVE DistinctSeqs(_, _)
DistinctSeqs(S, n) ==
  IF n = 0 THEN {<<>>}
  ELSE LET shorter == DistinctSeqs(S, n - 1)
       IN shorter \cup UNION {{Append(q, e) : e \in S \ Range(q)} :
                                q \in shorter}

HarnessCaches ==
  {Absent} \cup {Present(MessagePage(q, SeedPageInfo)) :
                   q \in DistinctSeqs(SeedEdges, 3)}

HarnessTexts == {"hi", "bye"}

HarnessMessages ==
  {Message(id, text, IF at = 1 THEN "Sending" ELSE IF at = 2 THEN "Sent"
                     ELSE "Read", at, "Admin") :
     id \in {"7", "9", "temp-a"}, text \in HarnessTexts, at \in 1..3}

CacheInit ==
  /\ messages = initialMessages
  /\ now = 0
  /\ tasks = {}
  /\ replies = 0
  /\ sendReqs = {}
  /\ acks = {}
  /\ addedQ = <<>>
  /\ updatedQ = <<>>
  /\ fetch = Idle
  /\ cache \in HarnessCaches
  /\ variant = "lib"
  /\ sends = 0
  /\ isConnected = TRUE
  /\ timers = 0
  /\ sendTimers = 0
  /\ pending = <<>>
  /\ inputValue = ""
  /\ isAtBottom = TRUE
  /\ newMessagesCount = 0
  /\ logged = 0
  /\ uncaught = FALSE
  /\ failed = {}
  /\ faults = 0
  /\ prev = cache
  /\ lastOp = Op("seed", NoMsg)
  /\ hist = [i \in DOMAIN Nodes(cache) |-> Op("seed", Nodes(cache)[i])]
  /\ ops = 0

systemVars == <<messages, now, tasks, replies, sendReqs, acks, addedQ,
                updatedQ, fetch, variant, sends, faultVars, uiVars,
                dispatchVars>>

Apply(op, result) ==
  /\ ops < MaxOps
  /\ ops' = ops + 1
  /\ cache' = result
  /\ prev' = cache
  /\ lastOp' = op
  /\ hist' = Append(hist, op)
  /\ UNCHANGED systemVars

Upsert(m) == Apply(Op("upsert", m), upsertMessageInCache(cache, m))

RemoveTemp(text) ==
  Apply(Op("removeTemp", [NoMsg EXCEPT !.text = text]),
        removeTempMessagesByText(cache, text))

Update(m) == Apply(Op("update", m), update(cache, m))

CacheNext ==
  \/ \E m \in HarnessMessages : Upsert(m)
  \/ \E text \in HarnessTexts : RemoveTemp(text)
  \/ \E m \in HarnessMessages : Update(m)

CacheSpec == CacheInit /\ [][CacheNext]_vars

\* the same pages with nothing but upserts applied
UpsertNext == \E m \in HarnessMessages : Upsert(m)

UpsertSpec == CacheInit /\ [][UpsertNext]_vars

\* the same pages with the responses of sends applied: update is given the
\* server's message only; the text that was submitted is recorded beside it
AckOp(submitted, confirmed) ==
  [kind |-> "acked", msg |-> confirmed, raw |-> submitted]

Acknowledge(submitted, confirmed) ==
  Apply(AckOp(submitted, confirmed), update(cache, confirmed))

AckNext ==
  \E submitted \in HarnessTexts, confirmed \in HarnessMessages :
    /\ ~isTemp(confirmed.id)
    /\ Acknowledge(submitted, confirmed)

AckSpec == CacheInit /\ [][AckNext]_vars

(***************************************************************************)
(* Harness of the field policy: merge applied to the same pages with pages *)
(* of the server's shape and every combination of the two cursors.         *)
(***************************************************************************)
IncomingEdges ==
  { MessageEdge(Message("9", "hi", "Read", 1, "Customer"), "9"),
    MessageEdge(Message("7", "hi", "Sending", 1, "Admin"), "7") }

IncomingPages ==
  {MessagePage(q, MessagePageInfo(
                    hasNextPage, Len(q) > 0,
                    IF Len(q) > 0 THEN q[1].cursor ELSE NULL,
                    IF Len(q) > 0 THEN q[Len(q)].cursor ELSE NULL)) :
     q \in {<<>>} \cup {s \in DistinctSeqs(IncomingEdges, 2) : Len(s) = 2},
     hasNextPage \in BOOLEAN}

\* args.after and args.before of a request: absent, empty or a cursor
CursorArgs ==
  {<<NULL, NULL>>, <<"", "">>, <<"8", NULL>>, <<NULL, "7">>, <<"8", "7">>,
   <<"", "7">>}

MergeOp(incoming, after, before) ==
  [kind |-> "merge", msg |-> NoMsg, incoming |-> incoming, after |-> after,
   before |-> before]

Merge(incoming, after, before) ==
  Apply(MergeOp(incoming, after, before), merge(cache, incoming, after, before))

MergeNext ==
  \E incoming \in IncomingPages, args \in CursorArgs :
    Merge(incoming, args[1], args[2])

MergeSpec == CacheInit /\ [][MergeNext]_vars

(***************************************************************************)
(* Properties of the cache functions, checked under CacheSpec.             *)
(***************************************************************************)
\* the edge of the page before the last operation that carries the id of
\* the operation's message (0 when there is none)
PrevIndex == findIndex(Edges(prev), lastOp.msg.id)

\* the edges the ack path evicts: placeholders with the text of the message
Evicted(edge, text) == isTemp(edge.node.id) /\ edge.node.text = text

\* C2: an upsert whose message is strictly older than the stored record of
\* its id leaves the cache entry exactly as it was.
C2_StaleDiscarded ==
  (/\ lastOp.kind = "upsert"
   /\ PrevIndex # 0
   /\ lastOp.msg.updatedAt < Edges(prev)[PrevIndex].node.updatedAt)
    => cache = prev

\* an upsert of an older message, with another text and status, was applied
C2_Witness ==
  /\ lastOp.kind = "upsert"
  /\ PrevIndex # 0
  /\ lastOp.msg.updatedAt < Edges(prev)[PrevIndex].node.updatedAt
  /\ lastOp.msg.text # Edges(prev)[PrevIndex].node.text
  /\ lastOp.msg.status # Edges(prev)[PrevIndex].node.status

\* C3: a message whose id is in the page and whose updatedAt is greater than
\* or equal to the stored one replaces the node of that edge, in place and
\* under the same cursor, on the push path (upsert) and on the ack path
\* (update, for the edges it does not evict).
C3_FresherOrEqualReplaces ==
  (lastOp.kind \in {"upsert", "update"} /\ prev # Absent) =>
    \A i \in DOMAIN Edges(prev) :
      LET edge == Edges(prev)[i]
          evictedBefore ==
            IF lastOp.kind = "update"
              THEN Cardinality({k \in 1..(i - 1) :
                                  Evicted(Edges(prev)[k], lastOp.msg.text)})
              ELSE 0
      IN (/\ edge.node.id = lastOp.msg.id
          /\ lastOp.msg.updatedAt >= edge.node.updatedAt
          /\ lastOp.kind = "upsert" => i = PrevIndex
          /\ lastOp.kind = "update" => ~Evicted(edge, lastOp.msg.text))
           => /\ (i - evictedBefore) \in DOMAIN Edges(cache)
              /\ Edges(cache)[i - evictedBefore] =
                   [edge EXCEPT !.node = lastOp.msg]

\* a message with the stored timestamp and another content has replaced the
\* stored node through upsert, and then a third one with the same timestamp
\* has replaced that through the ack update
C3_Witness ==
  /\ Len(hist) >= 3
  /\ hist[Len(hist) - 1].kind = "upsert"
  /\ lastOp.kind = "update"
  /\ PrevIndex # 0
  /\ Edges(prev)[PrevIndex].node = hist[Len(hist) - 1].msg
  /\ lastOp.msg.updatedAt = hist[Len(hist) - 1].msg.updatedAt
  /\ lastOp.msg # hist[Len(hist) - 1].msg
  /\ \E k \in 1..(Len(hist) - 2) :
       /\ hist[k].msg.id = lastOp.msg.id
       /\ hist[k].msg.updatedAt = lastOp.msg.updatedAt
       /\ hist[k].msg # hist[Len(hist) - 1].msg
  /\ \E i \in DOMAIN Edges(cache) : Edges(cache)[i].node = lastOp.msg

\* C4: an upsert whose id is not in the page appends exactly one edge, with
\* the message as node and "cursor_" followed by the id as cursor; the edges
\* that were there keep their content and order.
C4_AbsentAppended ==
  (lastOp.kind = "upsert" /\ prev # Absent /\ PrevIndex = 0) =>
    /\ cache # Absent
    /\ Edges(cache) =
         Append(Edges(prev),
                MessageEdge(lastOp.msg, "cursor_" \o lastOp.msg.id))
    /\ Data(cache).pageInfo = Data(prev).pageInfo

\* an upsert of a new id was applied to a page that had edges
C4_Witness ==
  /\ lastOp.kind = "upsert"
  /\ prev # Absent
  /\ PrevIndex = 0
  /\ Len(Edges(prev)) >= 2

\* C5: applying the message of an upsert a second time changes nothing.
C5_UpsertIdempotent ==
  lastOp.kind = "upsert" => upsertMessageInCache(cache, lastOp.msg) = cache

\* an upsert that changed the page was applied
C5_Witness ==
  /\ lastOp.kind = "upsert"
  /\ cache # prev
  /\ PrevIndex # 0

\* the messages applied so far to the given id
AppliedTo(id) == SelectSeq(hist, LAMBDA o : o.msg.id = id)

\* C6: after any sequence of upserts the node stored for an id has the
\* greatest updatedAt among the messages applied to that id, and is the last
\* applied of those that have it.
C6_FreshestLastWins ==
  (\A k \in DOMAIN hist : hist[k].kind \in {"seed", "upsert"}) =>
    \A i \in DOMAIN Edges(cache) :
      LET node == Edges(cache)[i].node
          applied == AppliedTo(node.id)
          top == Max({applied[k].msg.updatedAt : k \in DOMAIN applied})
          last == Max({k \in DOMAIN applied : applied[k].msg.updatedAt = top})
      IN /\ node.updatedAt = top
         /\ node = applied[last].msg

\* three messages were applied to one id: the freshest, then an older one,
\* then one with the timestamp of the freshest and another content
C6_Witness ==
  /\ \A k \in DOMAIN hist : hist[k].kind \in {"seed", "upsert"}
  /\ \E id \in Ids(cache) :
       LET applied == AppliedTo(id)
       IN /\ Len(applied) = 3
          /\ applied[2].msg.updatedAt < applied[1].msg.updatedAt
          /\ applied[3].msg.updatedAt = applied[1].msg.updatedAt
          /\ applied[3].msg # applied[1].msg

\* the edges of the page that the eviction for the given text keeps
Kept(c, text) == SelectSeq(Edges(c), LAMBDA edge : ~Evicted(edge, text))

\* C11: eviction for a text t removes exactly the placeholders with text t.
\* removeTempMessagesByText leaves the other edges, in their order, and the
\* pageInfo; the ack update leaves the other edges in their order and under
\* their cursor, unaltered unless they carry the id of the response, and
\* adds at most the edge of the response behind them.
C11_EvictsExactlyTempsOfText ==
  /\ (lastOp.kind = "removeTemp" /\ prev # Absent) =>
       /\ cache # Absent
       /\ Edges(cache) = Kept(prev, lastOp.msg.text)
       /\ Data(cache).pageInfo = Data(prev).pageInfo
  /\ (lastOp.kind = "update" /\ prev # Absent) =>
       LET kept == Kept(prev, lastOp.msg.text)
           edges == Edges(cache)
       IN /\ Len(edges) \in {Len(kept), Len(kept) + 1}
          /\ \A i \in DOMAIN kept :
               /\ edges[i].node.id = kept[i].node.id
               /\ edges[i].cursor = kept[i].cursor
               /\ kept[i].node.id # lastOp.msg.id => edges[i] = kept[i]
          /\ Len(edges) = Len(kept) + 1 =>
               edges[Len(edges)] = newEdge(lastOp.msg)
          /\ Data(cache).pageInfo = Data(prev).pageInfo

\* the page holds a placeholder with the text, a placeholder with another
\* text and a server record with the text
EvictionCase(nodes, text) ==
  /\ \E n \in nodes : isTemp(n.id) /\ n.text = text
  /\ \E n \in nodes : isTemp(n.id) /\ n.text # text
  /\ \E n \in nodes : ~isTemp(n.id) /\ n.text = text

\* an update and then removeTempMessagesByText were each applied to a page
\* with the three kinds of edges, and each evicted one edge
C11_Witness ==
  /\ ops = 2
  /\ hist[Len(hist) - 1].kind = "update"
  /\ lastOp.kind = "removeTemp"
  /\ EvictionCase({hist[k].msg : k \in 1..(Len(hist) - 2)},
                  hist[Len(hist) - 1].msg.text)
  /\ EvictionCase(Range(Nodes(prev)), lastOp.msg.text)
  /\ Len(Edges(prev)) = 3
  /\ Len(Edges(cache)) = 2

\* two messages conflict when they carry the same id and the same updatedAt
\* and differ otherwise
Conflict(m, n) == m.id = n.id /\ m.updatedAt = n.updatedAt /\ m # n

\* the two cache entries hold the same edges and pageInfo, and the same ids
\* at the positions of the entry c they were both built from
SameUpToAppendOrder(x, y, c) ==
  /\ (x = Absent) = (y = Absent)
  /\ x # Absent =>
       /\ Data(x).pageInfo = Data(y).pageInfo
       /\ Len(Edges(x)) = Len(Edges(y))
       /\ Range(Edges(x)) = Range(Edges(y))
       /\ \A i \in DOMAIN Edges(c) :
            /\ i \in DOMAIN Edges(x)
            /\ Edges(x)[i].node.id = Edges(c)[i].node.id
            /\ Edges(y)[i].node.id = Edges(c)[i].node.id

\* C12 as stated: after an upsert of m, applying any message n that does not
\* conflict with m before m, after m, or between two applications of m,
\* gives the same cache entry, edge sequence included.
C12_ConvergesWithEdgeOrder ==
  lastOp.kind = "upsert" =>
    \A n \in HarnessMessages :
      ~Conflict(lastOp.msg, n) =>
        LET m == lastOp.msg
            mn == upsertMessageInCache(cache, n)
            nm == upsertMessageInCache(upsertMessageInCache(prev, n), m)
            mnm == upsertMessageInCache(mn, m)
        IN nm = mn /\ mnm = mn

\* C12 amended: the three orders give the same edges (node and cursor of
\* every id) and pageInfo, with the edges of the entry they started from at
\* their positions; the edge sequences are equal unless m and n carry two
\* different ids that are both new to the entry, which are appended in the
\* order of their first application.
C12_ConvergesUpToAppendOrder ==
  lastOp.kind = "upsert" =>
    \A n \in HarnessMessages :
      ~Conflict(lastOp.msg, n) =>
        LET m == lastOp.msg
            mn == upsertMessageInCache(cache, n)
            nm == upsertMessageInCache(upsertMessageInCache(prev, n), m)
            mnm == upsertMessageInCache(mn, m)
        IN /\ mnm = mn
           /\ SameUpToAppendOrder(nm, mn, prev)
           /\ (m.id = n.id \/ m.id \in Ids(prev) \/ n.id \in Ids(prev))
                => nm = mn

\* a message was upserted after a fresher message of the same id, its id
\* being new to the page before both, and a third id is still new
C12_Witness ==
  /\ ops = 2
  /\ hist[Len(hist) - 1].kind = "upsert"
  /\ lastOp.kind = "upsert"
  /\ prev # Absent
  /\ hist[Len(hist) - 1].msg.id = lastOp.msg.id
  /\ hist[Len(hist) - 1].msg.updatedAt > lastOp.msg.updatedAt
  /\ \A k \in 1..(Len(hist) - 2) : hist[k].msg.id # lastOp.msg.id
  /\ Len(hist) > 2
  /\ \E n \in HarnessMessages : n.id \notin Ids(cache)

(***************************************************************************)
(* Properties of the field policy, checked under MergeSpec.                *)
(***************************************************************************)
\* the request carries the cursor
Given(cursor) == cursor # NULL /\ cursor # ""

\* C14: a merge for a request with an after cursor onto an existing page
\* gives the existing edges followed by the incoming edges and the pageInfo
\* of the incoming page.
C14_ForwardAppends ==
  (lastOp.kind = "merge" /\ prev # Absent /\ Given(lastOp.after)) =>
    /\ cache # Absent
    /\ Edges(cache) = Edges(prev) \o lastOp.incoming.edges
    /\ Data(cache).pageInfo = lastOp.incoming.pageInfo

\* a page of two edges was merged forward onto a page of two or more edges
\* with another pageInfo
C14_Witness ==
  /\ lastOp.kind = "merge"
  /\ prev # Absent
  /\ Given(lastOp.after)
  /\ Len(Edges(prev)) >= 2
  /\ Len(lastOp.incoming.edges) = 2
  /\ lastOp.incoming.pageInfo # Data(prev).pageInfo
  /\ Len(Edges(cache)) = Len(Edges(prev)) + 2

\* C15: a merge for a request with a before cursor and no after cursor onto
\* an existing page gives the incoming edges followed by the existing edges;
\* hasNextPage and endCursor are the existing page's, hasPreviousPage and
\* startCursor the incoming page's.
C15_BackwardPrepends ==
  (/\ lastOp.kind = "merge"
   /\ prev # Absent
   /\ ~Given(lastOp.after)
   /\ Given(lastOp.before)) =>
    /\ cache # Absent
    /\ Edges(cache) = lastOp.incoming.edges \o Edges(prev)
    /\ Data(cache).pageInfo.hasNextPage = Data(prev).pageInfo.hasNextPage
    /\ Data(cache).pageInfo.endCursor = Data(prev).pageInfo.endCursor
    /\ Data(cache).pageInfo.hasPreviousPage =
         lastOp.incoming.pageInfo.hasPreviousPage
    /\ Data(cache).pageInfo.startCursor = lastOp.incoming.pageInfo.startCursor

\* a page of two edges was merged backward onto a page of two or more edges
\* whose four pageInfo fields all differ from the incoming ones
C15_Witness ==
  /\ lastOp.kind = "merge"
  /\ prev # Absent
  /\ ~Given(lastOp.after)
  /\ Given(lastOp.before)
  /\ Len(Edges(prev)) >= 2
  /\ Len(lastOp.incoming.edges) = 2
  /\ lastOp.incoming.pageInfo.hasNextPage # Data(prev).pageInfo.hasNextPage
  /\ lastOp.incoming.pageInfo.endCursor # Data(prev).pageInfo.endCursor
  /\ lastOp.incoming.pageInfo.hasPreviousPage #
       Data(prev).pageInfo.hasPreviousPage
  /\ lastOp.incoming.pageInfo.startCursor # Data(prev).pageInfo.startCursor

\* C16: a merge with no existing page, and a merge for a request with
\* neither cursor, give the incoming page as it is.
C16_AbsentOrInitialVerbatim ==
  (/\ lastOp.kind = "merge"
   /\ prev = Absent \/ (~Given(lastOp.after) /\ ~Given(lastOp.before))) =>
    cache = Present(lastOp.incoming)

\* a page was merged with an after cursor while the query was not cached,
\* and then another page was merged over it with neither cursor
C16_Witness ==
  /\ ops = 2
  /\ Len(hist) = 2
  /\ hist[1].kind = "merge"
  /\ Given(hist[1].after)
  /\ prev = Present(hist[1].incoming)
  /\ Len(Edges(prev)) = 2
  /\ lastOp.kind = "merge"
  /\ ~Given(lastOp.after)
  /\ ~Given(lastOp.before)
  /\ lastOp.incoming # hist[1].incoming
  /\ Edges(cache) # Edges(prev)

(***************************************************************************)
(* Properties of the running system.                                       *)
(***************************************************************************)
\* nodes of the page that carry the given id, in page order
IdNodes(c, id) == SelectSeq(Nodes(c), LAMBDA n : n.id = id)

\* the values of updatedAt the page holds for the given id
StoredAt(c, id) == {IdNodes(c, id)[i].updatedAt : i \in DOMAIN IdNodes(c, id)}

TempTexts(c) == {Nodes(c)[i].text : i \in {j \in DOMAIN Nodes(c) :
                                             isTemp(Nodes(c)[j].id)}}

\* C1: a sendMessage response that is older than the record stored for its id
\* does not overwrite that record: after the ack's cache update every node of
\* that id that was fresher than the response is still there, unchanged.
C1_AckKeepsFresher ==
  lastOp.kind = "ack" =>
    LET before == IdNodes(prev, lastOp.msg.id)
        after == IdNodes(cache, lastOp.msg.id)
    IN \A i \in DOMAIN before :
         before[i].updatedAt > lastOp.msg.updatedAt =>
           i \in DOMAIN after /\ after[i] = before[i]

\* an ack has just been applied to a page that held a fresher record of its
\* id, written by a messageUpdated event
C1_Witness ==
  /\ lastOp.kind = "ack"
  /\ \E i \in DOMAIN IdNodes(prev, lastOp.msg.id) :
       /\ IdNodes(prev, lastOp.msg.id)[i].updatedAt > lastOp.msg.updatedAt
       /\ IdNodes(prev, lastOp.msg.id)[i].status # "Sending"

\* the push events of the given kind handled so far for the given id
Handled(kind, id) ==
  SelectSeq(hist, LAMBDA o : o.kind = kind /\ o.msg.id = id)

\* C13: once a created event and an updated event of the same id, with
\* different updatedAt, have both been handled, the node stored for the id
\* (the first edge that carries it) has the greatest updatedAt of the events
\* handled for the id, whichever was handled first.
C13_CreatedUpdatedByTimestamp ==
  \A k \in DOMAIN hist :
    LET id == hist[k].msg.id
        created == Handled("messageAdded", id)
        updated == Handled("messageUpdated", id)
        top == Max({hist[j].msg.updatedAt :
                      j \in {i \in DOMAIN hist : hist[i].msg.id = id}})
    IN (/\ Len(created) > 0
        /\ Len(updated) > 0
        /\ created[1].msg.updatedAt # updated[1].msg.updatedAt
        /\ cache # Absent)
         => /\ findIndex(Edges(cache), id) # 0
            /\ Edges(cache)[findIndex(Edges(cache), id)].node.updatedAt = top

\* C17: no step removes a server record from the page: an id without the
\* temp- marker that is in the page before a step is in the page after it.
C17_ServerRecordsStay ==
  [][\A id \in Ids(cache) : ~isTemp(id) => id \in Ids(cache')]_vars

\* the sends that have not settled: their request or their response is on
\* its way
InFlight ==
  {[uuid |-> r.uuid, text |-> r.text] : r \in sendReqs} \cup
  {[uuid |-> a.uuid, text |-> a.data.text] : a \in acks}

\* the text is not empty and has no space at either end
Trimmed(text) ==
  /\ Len(text) > 0
  /\ SubSeq(text, 1, 1) # " "
  /\ SubSeq(text, Len(text), Len(text)) # " "

\* C18: while a send has not settled, the page holds exactly one edge with
\* the temp- id of that send, with status Sending, sender Admin and the text
\* of the request, which is the trimmed text of the submit.
C18_PlaceholderUntilSettled ==
  \A s \in InFlight :
    LET temps == IdNodes(cache, "temp-" \o s.uuid)
    IN /\ Trimmed(s.text)
       /\ (lastOp.kind = "optimistic" /\ lastOp.msg.id = "temp-" \o s.uuid)
            => s.text = trim(lastOp.raw)
       /\ Len(temps) = 1
       /\ temps[1].status = "Sending"
       /\ temps[1].sender = "Admin"
       /\ temps[1].text = s.text

\* the text has nothing but spaces
Blank(text) == \A i \in 1..Len(text) : SubSeq(text, i, i) = " "

\* C19: a call of sendMessage with a text of nothing but spaces is rejected
\* (returns null): it leaves the page as it is, sends no request and
\* generates no optimistic response.
C19_BlankSubmitRejected ==
  [][(/\ lastOp' # lastOp
      /\ lastOp'.kind \in {"optimistic", "rejected"}
      /\ Blank(lastOp'.raw))
       => /\ lastOp'.kind = "rejected"
          /\ cache' = cache
          /\ sendReqs' = sendReqs
          /\ acks' = acks
          /\ sends' = sends]_vars

\* a text of two spaces was submitted while the page was loaded, and
\* rejected
C19_Witness ==
  /\ lastOp.kind = "rejected"
  /\ lastOp.raw = "  "
  /\ cache # Absent
  /\ Len(Edges(cache)) > 0
  /\ sendReqs = {}
  /\ sends = 0

\* C20: the placeholder of a send whose request failed stays in the page,
\* with status Sending: no step, from the failure on, removes or alters it.
C20_FailedSendKeepsPlaceholder ==
  [][\A u \in failed' :
       ("temp-" \o u) \in Ids(cache) =>
         /\ ("temp-" \o u) \in Ids(cache')
         /\ \A i \in DOMAIN IdNodes(cache', "temp-" \o u) :
              IdNodes(cache', "temp-" \o u)[i].status = "Sending"]_vars

\* C7: no two edges of the page carry the same id.
C7_OneEdgePerId ==
  \A i, j \in DOMAIN Edges(cache) :
    Edges(cache)[i].node.id = Edges(cache)[j].node.id => i = j

\* C8: no operation that writes the page leaves for an id an updatedAt older
\* than one the page held for that id before the operation.
C8_NoRegression ==
  \A id \in Ids(prev) \cap Ids(cache) :
    \A v \in StoredAt(prev, id) : \A w \in StoredAt(cache, id) : w >= v

\* C9: while the response of a send is still on its way, the page does not
\* hold both the placeholder of that send and the server's record of it.
C9_NoTempBesideConfirmed ==
  \A a \in acks :
    ~(("temp-" \o a.uuid) \in Ids(cache) /\ a.data.id \in Ids(cache))

\* C10: after the ack for text t and server id s was applied to a page, the
\* page has no temp edge with text t and exactly one edge with id s.
C10_AckLeavesOneConfirmed ==
  (lastOp.kind = "ack" /\ prev # Absent) =>
    /\ lastOp.msg.text \notin TempTexts(cache)
    /\ Len(IdNodes(cache, lastOp.msg.id)) = 1

(***************************************************************************)
(* Transport failures and the connection indicator, checked under Spec.    *)
(***************************************************************************)
\* C21: a send that fails at the transport is reported by the coordinator:
\* in the step in which the request fails isConnected becomes false and
\* exactly one reconnect timer is started, the send is not requested again,
\* and the timer of a send sets isConnected back to true when it fires.
C21_SendFailureReported ==
  [][/\ failed' # failed =>
          /\ ~isConnected'
          /\ sendTimers' = sendTimers + 1
          /\ sendReqs' \subseteq sendReqs
     /\ sendTimers' < sendTimers =>
          /\ isConnected'
          /\ sendTimers' = sendTimers - 1
          /\ sendReqs' = sendReqs]_vars

\* C22: a load-more request that fails at the transport is reported by the
\* coordinator: in the step in which the request fails isConnected becomes
\* false and a reconnect timer is started, and when that timer fires
\* isConnected becomes true and GetMessages is requested again.
C22_LoadFailureReported ==
  [][/\ faults' # faults =>
          /\ ~isConnected'
          /\ timers' = timers + 1
     /\ timers' < timers =>
          /\ isConnected'
          /\ fetch' = Requested(NULL)]_vars

(***************************************************************************)
(* Concurrent sends, checked under SendSpec.                               *)
(***************************************************************************)
\* the edges of a page that belong to other sends than the one whose
\* confirmed message is given: placeholders of another text and records of
\* another server id
OfOtherSends(c, confirmed) ==
  LET other(edge) ==
        IF isTemp(edge.node.id) THEN edge.node.text # confirmed.text
        ELSE edge.node.id # confirmed.id
  IN SelectSeq(Edges(c), other)

C24_HandleSubmitGuard ==
  [][(/\ lastOp' # lastOp
      /\ lastOp'.kind \in {"ignored", "submitted"})
       => IF Blank(inputValue) \/ InFlight # {}
            THEN /\ lastOp'.kind = "ignored"
                 /\ inputValue' = inputValue
                 /\ sendReqs' = sendReqs
                 /\ sends' = sends
                 /\ cache' = cache
            ELSE /\ lastOp'.kind = "submitted"
                 /\ lastOp'.raw = inputValue
                 /\ inputValue' = ""
                 /\ acks' = acks
                 /\ \E r \in sendReqs' :
                      /\ sendReqs' = sendReqs \cup {r}
                      /\ r \notin sendReqs
                      /\ Trimmed(r.text)
                      /\ r.text = lastOp'.msg.text]_vars

\* handleSubmit started a send, and was called again with a text in the
\* input while that send was still in progress, and did nothing
C24_Witness ==
  /\ lastOp.kind = "ignored"
  /\ ~Blank(lastOp.raw)
  /\ inputValue = lastOp.raw
  /\ sends = 1
  /\ InFlight # {}

(***************************************************************************)
(* The subscription handlers and the counter of new messages, checked      *)
(* under ChatSpec.                                                         *)
(***************************************************************************)
\* the step takes the oldest event of a subscription
Taken(queue, queueAfter) == queue # <<>> /\ queueAfter = Tail(queue)

\* C25: an event without a payload is ignored on either stream: the step
\* that takes it leaves the page and the history of handled events as they
\* were, does not run the callback (the counter keeps its value) and
\* raises and logs no error.
C25_EmptyPayloadIgnored ==
  [][(\/ Taken(addedQ, addedQ') /\ Head(addedQ) = NoData
      \/ Taken(updatedQ, updatedQ') /\ Head(updatedQ) = NoData)
       => /\ cache' = cache
          /\ hist' = hist
          /\ newMessagesCount' = newMessagesCount
          /\ logged' = logged
          /\ uncaught' = uncaught]_vars

\* an empty messageAdded event was taken while the page was cached and the
\* viewport was away from the bottom, where a message would have been
\* stored and counted
C25_Witness ==
  /\ lastOp.kind = "emptyAdded"
  /\ cache # Absent
  /\ ~isAtBottom

\* C26: when the store throws while a push event is applied, the error is
\* caught in the handler: it is logged once, it does not leave the handler
\* and the callback of the event does not run (the counter keeps its
\* value); the events taken afterwards on either stream are handled as
\* usual: a created event ends up in the cached page and an updated event
\* of a cached id leaves that id at least as fresh as the event.
C26_HandlerFailureCaught ==
  [][/\ (\/ Taken(addedQ, addedQ') /\ lastOp'.kind = "addedThrew"
         \/ Taken(updatedQ, updatedQ') /\ lastOp'.kind = "updatedThrew")
          => /\ ~uncaught'
             /\ logged' = logged + 1
             /\ newMessagesCount' = newMessagesCount
     /\ (/\ logged > 0
         /\ Taken(addedQ, addedQ')
         /\ lastOp'.kind = "messageAdded"
         /\ cache # Absent)
          => /\ Head(addedQ).id \in Ids(cache')
             /\ ~uncaught'
     /\ (/\ logged > 0
         /\ Taken(updatedQ, updatedQ')
         /\ lastOp'.kind = "messageUpdated"
         /\ Head(updatedQ).id \in Ids(cache))
          => /\ \E i \in DOMAIN Edges(cache') :
                  /\ Edges(cache')[i].node.id = Head(updatedQ).id
                  /\ Edges(cache')[i].node.updatedAt >=
                       Head(updatedQ).updatedAt
             /\ ~uncaught']_vars

\* the store threw for one event, and a created event taken afterwards was
\* stored and counted
C26_Witness ==
  /\ logged > 0
  /\ ~uncaught
  /\ lastOp.kind = "messageAdded"
  /\ lastOp.msg.id \in Ids(cache) \ Ids(prev)
  /\ newMessagesCount > 0

\* C27: a created event handled while the viewport is away from the bottom
\* raises the counter by exactly one if its sender is the customer; a
\* created event of the admin, and any created event handled at the bottom,
\* leaves the counter as it was.
C27_CountsRemoteOnly ==
  [][(Taken(addedQ, addedQ') /\ lastOp'.kind = "messageAdded")
       => newMessagesCount' =
            IF ~isAtBottom /\ Head(addedQ).sender = "Customer"
              THEN newMessagesCount + 1
              ELSE newMessagesCount]_vars

\* C28: when the viewport returns to the bottom the counter becomes 0,
\* whatever it was, and resetNewMessages sets it to 0 from any state.
C28_BottomAndResetClear ==
  [][/\ (/\ lastOp' # lastOp
         /\ lastOp'.kind = "atBottomChange"
         /\ isAtBottom')
          => newMessagesCount' = 0
     /\ (/\ lastOp' # lastOp
         /\ lastOp'.kind = "resetNewMessages")
          => newMessagesCount' = 0]_vars

\* the viewport returned to the bottom with new messages counted
C28_Witness ==
  /\ lastOp.kind = "atBottomChange"
  /\ lastOp.atBottom
  /\ lastOp.count > 0
  /\ isAtBottom
  /\ newMessagesCount = 0

(***************************************************************************)
(* The store before the first page, checked under CacheSpec, and the order *)
(* of eviction and upsert in the acknowledgment, checked under AckSpec.    *)
(***************************************************************************)
\* C29: with no page cached, upsertMessageInCache, removeTempMessagesByText
\* and the update of an acknowledgment write nothing: the cache entry is
\* still absent after them.
C29_AbsentStoreStaysAbsent ==
  (/\ lastOp.kind \in {"upsert", "removeTemp", "update"}
   /\ prev = Absent)
    => cache = Absent

\* an upsert and an eviction were applied with no page cached
C29_Witness ==
  /\ cache = Absent
  /\ prev = Absent
  /\ ops = 2
  /\ {hist[i].kind : i \in DOMAIN hist} = {"upsert", "removeTemp"}

TempsOfText(c, text) ==
  {i \in DOMAIN Edges(c) : Evicted(Edges(c)[i], text)}

\* C31: when a confirmed message is acknowledged, every placeholder with
\* its text is evicted by that one update, also when there are two of them,
\* and the page then holds exactly one edge with the confirmed id.
C31_DoubleTempEvicted ==
  (/\ lastOp.kind = "update"
   /\ ~isTemp(lastOp.msg.id)
   /\ prev # Absent)
    => /\ TempsOfText(cache, lastOp.msg.text) = {}
       /\ Cardinality({i \in DOMAIN Edges(cache) :
                         Edges(cache)[i].node.id = lastOp.msg.id}) = 1

\* the update of a confirmed message found two placeholders with its text
C31_Witness ==
  /\ lastOp.kind = "update"
  /\ ~isTemp(lastOp.msg.id)
  /\ Cardinality(TempsOfText(prev, lastOp.msg.text)) = 2
  /\ TempsOfText(cache, lastOp.msg.text) = {}

\* the edges of x stand in y in the same relative order
SameRelativeOrder(x, y) ==
  \A i, j \in DOMAIN x :
    i < j => \E p, q \in DOMAIN y : p < q /\ y[p] = x[i] /\ y[q] = x[j]

\* C32: upsertMessageInCache and removeTempMessagesByText touch only their
\* target.  An upsert leaves every edge but the one of its id as it was and
\* where it was, a replaced node stays at its position under the cursor of
\* its edge whatever its updatedAt, an appended edge comes behind the others;
\* an eviction leaves the surviving edges unaltered in their relative order;
\* both leave pageInfo as it was.
C32_OnlyTargetTouched ==
  /\ (lastOp.kind = "upsert" /\ prev # Absent) =>
       /\ cache # Absent
       /\ Data(cache).pageInfo = Data(prev).pageInfo
       /\ \A i \in DOMAIN Edges(prev) :
            /\ i \in DOMAIN Edges(cache)
            /\ Edges(cache)[i].cursor = Edges(prev)[i].cursor
            /\ Edges(cache)[i].node.id = Edges(prev)[i].node.id
            /\ i # PrevIndex => Edges(cache)[i] = Edges(prev)[i]
       /\ Len(Edges(cache)) =
            Len(Edges(prev)) + (IF PrevIndex = 0 THEN 1 ELSE 0)
  /\ (lastOp.kind = "removeTemp" /\ prev # Absent) =>
       /\ cache # Absent
       /\ Data(cache).pageInfo = Data(prev).pageInfo
       /\ Range(Edges(cache)) \subseteq Range(Edges(prev))
       /\ SameRelativeOrder(Edges(cache), Edges(prev))

\* an eviction took an edge out of a page of three, and then an upsert
\* replaced the first node, whose cursor is not the one a new edge gets, by
\* a message fresher than the node behind it
C32_Witness ==
  /\ ops = 2
  /\ hist[Len(hist) - 1].kind = "removeTemp"
  /\ Len(hist) = 5
  /\ lastOp.kind = "upsert"
  /\ Len(Edges(prev)) = 2
  /\ PrevIndex = 1
  /\ Edges(prev)[1].cursor # newEdge(lastOp.msg).cursor
  /\ Edges(cache)[1].node = lastOp.msg
  /\ Edges(cache)[1].node # Edges(prev)[1].node
  /\ lastOp.msg.updatedAt > Edges(cache)[2].node.updatedAt

(***************************************************************************)
(* Atomic handling of the inbound events, checked under Spec.              *)
(***************************************************************************)
\* every edge of the page c that the event of message m does not target
\* (another id, and not a placeholder the ack evicts) is in the page d
OthersSurvive(c, d, m, ack) ==
  \A i \in DOMAIN Edges(c) :
    (/\ Edges(c)[i].node.id # m.id
     /\ ~(ack /\ Evicted(Edges(c)[i], m.text)))
      => \E j \in DOMAIN Edges(d) : Edges(d)[j] = Edges(c)[i]

\* the page c is the front of the page d
IsPrefix(c, d) ==
  /\ Len(Edges(c)) <= Len(Edges(d))
  /\ SubSeq(Edges(d), 1, Len(Edges(c))) = Edges(c)

\* one step applies at most one event, and the page it writes is the
\* handler's result for the store as it is when the event is handled
AtomicStep ==
  /\ (\E a \in acks : acks' = acks \ {a}) =>
       \E a \in acks :
         /\ acks' = acks \ {a}
         /\ cache' = update(cache, a.data)
         /\ OthersSurvive(cache, cache', a.data, TRUE)
  /\ Taken(addedQ, addedQ') =>
       /\ cache' = IF variant = "lib"
                     THEN handleNewMessage(cache, Head(addedQ))
                     ELSE hooksHandleNewMessage(cache, Head(addedQ))
       /\ OthersSurvive(cache, cache', Head(addedQ), FALSE)
  /\ Taken(updatedQ, updatedQ') =>
       /\ cache' = IF variant = "lib"
                     THEN handleUpdatedMessage(cache, Head(updatedQ))
                     ELSE hooksHandleUpdatedMessage(cache, Head(updatedQ))
       /\ OthersSurvive(cache, cache', Head(updatedQ), FALSE)
  /\ (fetch.phase = "responded" /\ fetch'.phase = "idle") =>
       /\ cache' = merge(cache, fetch.page, fetch.after, NULL)
       /\ (cache # Absent /\ fetch.after # NULL) => IsPrefix(cache, cache')
  /\ cache' # cache =>
       \/ \E a \in acks : acks' = acks \ {a}
       \/ Taken(addedQ, addedQ')
       \/ Taken(updatedQ, updatedQ')
       \/ fetch.phase = "responded" /\ fetch'.phase = "idle"
       \/ sends' = sends + 1

LoadMoreIssued ==
  /\ fetch' # fetch
  /\ fetch'.phase = "requested"
  /\ fetch'.after # NULL

\* C34: a load-more request is issued only when no page fetch is loading
\* and the current pageInfo has hasNextPage true and a non-empty endCursor,
\* and it asks for the page after that endCursor.
C34_LoadMoreGuarded ==
  [][LoadMoreIssued =>
       /\ fetch.phase = "idle"
       /\ cache # Absent
       /\ Data(cache).pageInfo.hasNextPage
       /\ Data(cache).pageInfo.endCursor \notin {NULL, ""}
       /\ fetch'.after = Data(cache).pageInfo.endCursor]_vars

\* a load-more for the page after the current endCursor is under way
C34_Witness ==
  /\ cache # Absent
  /\ fetch.phase = "requested"
  /\ fetch.after # NULL
  /\ fetch.after = Data(cache).pageInfo.endCursor
  /\ Data(cache).pageInfo.hasNextPage

(***************************************************************************)
(* The ack path against the shared helpers: the update of useSendMessage   *)
(* applied to the harness pages and to the pages the field policy makes of *)
(* them, which may hold an id twice.                                       *)
(***************************************************************************)
EquivNext ==
  \/ \E incoming \in IncomingPages, args \in CursorArgs :
       Merge(incoming, args[1], args[2])
  \/ \E m \in HarnessMessages : ~isTemp(m.id) /\ Update(m)

EquivSpec == CacheInit /\ [][EquivNext]_vars

\* what the shared helpers make of a page and a confirmed message
viaHelpers(c, message) ==
  upsertMessageInCache(removeTempMessagesByText(c, message.text), message)

AppendedAwayFromBottom ==
  /\ Taken(addedQ, addedQ')
  /\ hasPayload(Head(addedQ))
  /\ ~isAtBottom
  /\ cache # Absent
  /\ Head(addedQ).id \notin Ids(cache)
  /\ cache' # Absent
  /\ Len(Edges(cache')) = Len(Edges(cache)) + 1

\* C36: the counter grows only by one and only in a step in which a created
\* event appends a message to the store while the viewport is away from the
\* bottom, so it never exceeds the number of such messages: a created event
\* that repeats a message of the store, is discarded as stale or arrives
\* while the store is absent does not increase it.
C36_CountsAppendedOnly ==
  [][newMessagesCount' > newMessagesCount =>
       /\ newMessagesCount' = newMessagesCount + 1
       /\ AppendedAwayFromBottom]_vars

(***************************************************************************)
(* The server alone: sendMessage mutations, the status updates and the     *)
(* automatic replies, with no event handled by a client, so that addedQ    *)
(* holds every message published on messageAdded in the order of creation. *)
(***************************************************************************)
ServerNext ==
  \/ \E raw \in InputTexts : ConcurrentSubmit(raw)
  \/ \E r \in sendReqs : ServerSendMessage(r)
  \/ \E k \in tasks : ServerUpdate(k)
  \/ ServerReply

ServerSpec == Init /\ [][ServerNext]_vars

\* C37: the messages the server has published on messageAdded or returned
\* from sendMessage carry pairwise different ids: two publications never
\* share an id, and a returned message shares its id only with its own
\* publication.
C37_ServerIdsUnique ==
  /\ \A i, j \in DOMAIN addedQ : i # j => addedQ[i].id # addedQ[j].id
  /\ \A a \in acks : \A i \in DOMAIN addedQ :
       addedQ[i].id = a.data.id => addedQ[i] = a.data

(***************************************************************************)
(* Overlapping failures, checked under Spec.                               *)
(***************************************************************************)
\* C38: isConnected is false as long as the 3 s timer of some send or
\* load-more failure has not fired: the timer of an earlier failure does
\* not set it back to true while the timer of a later failure is pending.
C38_FalseUntilOwnTimer == pending # <<>> => ~isConnected

(***************************************************************************)
(* Sends that are all acknowledged: two concurrent sends, their created   *)
(* events, the first page and load-more pages, and no transport failure.   *)
(* The server resolves every mutation it received and the link delivers    *)
(* every response, hence the weak fairness of ServerSendMessage and        *)
(* DeliverAck; nothing is assumed about push events and page fetches.      *)
(***************************************************************************)
LiveNext ==
  \/ \E raw \in HarnessTexts : ConcurrentSubmit(raw)
  \/ \E a \in acks : DeliverAck(a)
  \/ DeliverAdded
  \/ FetchMore
  \/ MergePage
  \/ ResolveQuery
  \/ \E r \in sendReqs : ServerSendMessage(r)

LiveSpec ==
  /\ Init
  /\ [][LiveNext]_vars
  /\ WF_vars(\E r \in sendReqs : ServerSendMessage(r))
  /\ WF_vars(\E a \in acks : DeliverAck(a))

\* the store holds a placeholder
HasTemp == \E i \in DOMAIN Edges(cache) : isTemp(Edges(cache)[i].node.id)

\* C39: when every send is acknowledged, a store that holds a placeholder
\* is followed by a store that holds none, whatever push events and page
\* merges come in between.
C39_PlaceholdersGoAway == HasTemp ~> ~HasTemp

\* an ack was applied to a page with a placeholder, after a push event was
\* handled with the query cached, and left a page without placeholder
C39_Witness ==
  /\ lastOp.kind = "ack"
  /\ prev # Absent
  /\ \E i \in DOMAIN Edges(prev) : isTemp(Edges(prev)[i].node.id)
  /\ hist # <<>>
  /\ ~HasTemp
====
